---- MODULE Spec2Model ----
(***************************************************************************)
(* Segment synchronisation in the two pipeline drivers of the dubbing      *)
(* backend:                                                                *)
(*   psp  process_segment_pipeline  (backend/services/processing.py)       *)
(*   pvt  process_video_task        (backend/main.py)                      *)
(* Spec runs the chunk and segment loops of either driver; JobSpec runs a  *)
(* whole process_video_task job, its transcription and its assembly;       *)
(* CallSpec applies single helper calls to the inputs they can be given.   *)
(* Durations and positions are integers in milliseconds.  A speed factor   *)
(* is a pair <<num, den>> standing for the rational num/den.               *)
(***************************************************************************)
EXTENDS Integers, Sequences, FiniteSets, TLC

VARIABLES
    driver,            \* which driver runs the job: "psp" or "pvt"
    scenario,          \* which inputs vary: "timing", "voices"; "job", "calls"
    pc,                \* "idle" between chunks, "loop" inside the segment loop
    chunk,             \* index of the chunk being processed / next to process
    i,                 \* segments of the current chunk handled so far
    prevEnd,           \* end (ms) of the previous segment of the chunk
    cursor,            \* current_timeline_ms (psp) / current_video_cursor (pvt)
    audioMs,           \* duration of the audio appended for the chunk so far
    nFiles,            \* len(dubbed_files) (psp); audio appends (pvt)
    emitted,           \* artifacts appended by the last loop iteration, in order
    last,              \* what the last loop iteration did
    speaker_registry,  \* pvt: speaker key -> voice, of the current chunk
    voiceLog,          \* <<speaker, voice>> pairs handed to the synthesizer
    chunkOut,          \* the outcome of the last finished chunk
    status,            \* LOCAL_TASKS[task_id]["status"]
    task,              \* the rest of LOCAL_TASKS[task_id]: progress, message, result
    stored,            \* jobs/<task_id>.json in the storage bucket
    jpc,               \* position of process_video_task
    failure,           \* the step whose exception ended the task
    srcDur,            \* duration (ms) of the audio extracted from the source
    chunk_files,       \* windows <<from, to>> of the chunks split_audio_chunks cut
    final_audio_parts, \* pvt: paths appended by the chunk loop, in order
    disk,              \* paths of the chunk videos written to disk
    lists,             \* the concat lists written by the final merge
    stage,             \* smart_transcribe: "enrich" or "native" Gemini stage
    fileState,         \* state of the file uploaded to the provider
    calls,             \* providers smart_transcribe invoked, with outcomes
    raw_segments,      \* what smart_transcribe returned for the chunk
    applied            \* the last helper call applied on its own

segVars == <<driver, scenario, pc, chunk, i, prevEnd, cursor, audioMs, nFiles,
             emitted, last, speaker_registry, voiceLog, chunkOut>>

jobVars == <<status, task, stored, jpc, failure, srcDur, chunk_files, final_audio_parts,
             disk, lists, stage, fileState, calls, raw_segments>>

vars == <<segVars, jobVars, applied>>

----------------------------------------------------------------------------
(* Bounds of the model *)

MaxSegs == 2

MaxChunks == 2

(* Program constants *)

GapToleranceMs == 100

ChunkLengthMs == 300000

\* The audio may be this much longer than the video before the video is
\* stretched.
MergeToleranceMs == 100

\* Width of the segment number in a segment file's name ("%03d").
PadWidth == 3

\* Segments handed to optimize_segments_for_flow.
MaxFlowSegs == 3

\* gap_threshold=0.75 (seconds), in ms
GapThresholdMs == 750

\* max_chars=280
MaxChars == 280

\* est_chars_per_sec = 13
EstCharsPerSec == 13

\* max_retries = 3; range(3)
MaxRetries == 3

\* Helper calls in a row.
MaxCalls == 2

\* Files the splitter of create_job leaves.
SegmentCounts == {0, 1, 2, 11, 1001}

FallbackSilenceMs == 500

MinTextLen == 2

PspCap == <<5, 4>>

PvtCap == <<13, 10>>

AtempoMin == <<1, 1>>

AtempoMax == <<2, 1>>

male_voices == <<"ar-EG-ShakirNeural", "ar-SA-HamedNeural",
                 "ar-BH-AliNeural", "ar-YE-SalehNeural">>

female_voices == <<"ar-EG-SalmaNeural", "ar-SA-ZariyahNeural",
                   "ar-KW-NouraNeural", "ar-QA-AmalNeural">>

----------------------------------------------------------------------------
(* Input domains *)

Drivers == {"psp", "pvt"}

Scenarios == {"timing", "voices"}

\* Silence between the previous segment's end and this segment's start.
Gaps(sc) == IF sc = "timing" THEN {0, 100, 10000} ELSE {0}

\* end - start of a segment.
Targets(sc) == {2000}

\* Duration of the synthesized clip.
TtsDurs(sc) ==
    IF sc = "timing" THEN {1000, 2000, 2200, 2500, 2550, 2600, 3900}
    ELSE {2000}

\* Length of the segment's text as the driver tests it (psp: after clean_text;
\* pvt: after strip).
TextLens(sc) == IF sc = "timing" THEN {0, 1, 20} ELSE {20}

\* The <<speaker, gender>> labels enrichment gives a segment: a speaker keeps
\* one gender label throughout a job.
People(sc) ==
    IF sc = "voices"
    THEN {<<"Speaker A", "Male">>, <<"Speaker B", "Male">>,
          <<"Speaker C", "Female">>, <<"Speaker D", "female">>}
    ELSE {<<"Speaker A", "Male">>}

Outcomes(sc) == IF sc = "timing" THEN BOOLEAN ELSE {TRUE}

\* Original video left after the last segment of a chunk.
Tails == {0, 3000}

\* Duration (ms) of the audio extracted from the uploaded source.
Durations ==
    {0, 1, 120000, ChunkLengthMs, ChunkLengthMs + 1,
     MaxChunks * ChunkLengthMs - 180000, MaxChunks * ChunkLengthMs}

----------------------------------------------------------------------------
(* Pure helpers *)

\* a/b <= c/d for positive denominators
RatLeq(a, b, c, d) == a * d <= c * b

\* ratio = tts / target if target > 0 else 1.0
Ratio(tts, target) == IF target > 0 THEN <<tts, target>> ELSE <<1, 1>>

FactorLeq(f, g) == RatLeq(f[1], f[2], g[1], g[2])

\* The duration ffmpeg's atempo filter leaves of a clip of dur ms.
Stretch(dur, f) == (dur * f[2]) \div f[1]

NoArtifacts == << >>

\* One entry of the audio / video concatenation lists.  origin: "synth" (the
\* synthesized clip), "original" (cut from the source audio), "silent"
\* (generated silence), "frame" (a frozen video frame).
Artifact(kind, origin, dur, exists) ==
    [kind |-> kind, origin |-> origin, dur |-> dur, exists |-> exists]

NoLast ==
    [branch |-> "none", startGap |-> 0, target |-> 0, textLen |-> 0,
     speaker |-> "", gender |-> "", tts |-> 0, speedCall |-> FALSE,
     stretched |-> FALSE, factor |-> <<1, 1>>, advance |-> 0, voice |-> ""]

NoChunkOut ==
    [index |-> -1, audio |-> 0, video |-> 0, dubbed |-> FALSE,
     output |-> "none", raised |-> "none", stretched |-> FALSE, picture |-> 0]

RECURSIVE SumDur(_)
SumDur(s) ==
    IF s = << >> THEN 0
    ELSE (IF Head(s).kind # "VIDEO_FREEZE" /\ Head(s).exists
          THEN Head(s).dur ELSE 0) + SumDur(Tail(s))

----------------------------------------------------------------------------
NoLists == [audio |-> << >>, video |-> << >>]

NoSegments == [from |-> "none", segments |-> FALSE]

NoCall == << >>

\* message of a status record: what it says, and for a chunk "part/of".
Message(text, part, of) == [text |-> text, part |-> part, of |-> of]

\* result={"dubbed_video_url": url, "title": filename}
Result(url) == [present |-> TRUE, dubbed_video_url |-> url, title |-> "filename"]

\* A result without a URL.
PartialResult == Result("None")

\* result=None
NoResult == [present |-> FALSE, dubbed_video_url |-> "None", title |-> "None"]

Entry(progress, message, result) == [progress |-> progress, message |-> message, result |-> result]

\* The JSON db_update uploads.
Payload(st, entry) == [status |-> st, progress |-> entry.progress, message |-> entry.message, result |-> entry.result]

\* No JSON of the task is in the bucket.
NoPayload == Payload("none", Entry(0, Message("none", 0, 0), NoResult))

\* No job runs: the job-level state stays as it is here.
JobIdle ==
    /\ status = "PENDING"
    /\ task = Entry(0, Message("received", 0, 0), NoResult)
    /\ stored = NoPayload
    /\ jpc = "none"
    /\ failure = "none"
    /\ srcDur = 0
    /\ chunk_files = << >>
    /\ final_audio_parts = << >>
    /\ disk = {}
    /\ lists = NoLists
    /\ stage = "none"
    /\ fileState = "none"
    /\ calls = << >>
    /\ raw_segments = NoSegments

\* No chunk has been started.
SegIdle ==
    /\ pc = "idle"
    /\ chunk = 0
    /\ i = 0
    /\ prevEnd = 0
    /\ cursor = 0
    /\ audioMs = 0
    /\ nFiles = 0
    /\ emitted = NoArtifacts
    /\ last = NoLast
    /\ speaker_registry = << >>
    /\ voiceLog = {}
    /\ chunkOut = NoChunkOut

Init ==
    /\ JobIdle
    /\ applied = NoCall
    /\ driver \in Drivers
    /\ scenario \in Scenarios
    /\ SegIdle


----------------------------------------------------------------------------
(* Voice selection *)

\* Python's case-sensitive `sub in label` on the gender labels of the model.
Contains(label, sub) ==
    \/ label = sub
    \/ label = "Female" /\ sub = "male"
    \/ label = "female" /\ sub = "male"

\* str.lower() on the gender labels of the model.
Lower(label) ==
    IF label = "Female" THEN "female"
    ELSE IF label = "Male" THEN "male"
    ELSE label

\* speaker_key = f"{param_speaker}_{gender}"
SpeakerKey(speaker, gender) == <<speaker, gender>>

\* `sub in key` for sub = "Male" / "Female": the speaker labels hold neither.
KeyContains(key, sub) == Contains(key[2], sub)

InRegistry(reg, key) == \E n \in 1..Len(reg) : reg[n].key = key

Lookup(reg, key) == reg[CHOOSE n \in 1..Len(reg) : reg[n].key = key].voice

CountKeys(reg, sub) ==
    Cardinality({n \in 1..Len(reg) : KeyContains(reg[n].key, sub)})

\* The voice a new registry entry gets (round-robin within the gender pool).
NextVoice(reg, gender) ==
    IF Lower(gender) = "female"
    THEN female_voices[(CountKeys(reg, "Female") % Len(female_voices)) + 1]
    ELSE male_voices[(CountKeys(reg, "Male") % Len(male_voices)) + 1]

\* if speaker_key not in speaker_registry: speaker_registry[speaker_key] = ...
Register(reg, speaker, gender) ==
    IF InRegistry(reg, SpeakerKey(speaker, gender)) THEN reg
    ELSE Append(reg, [key |-> SpeakerKey(speaker, gender),
                      voice |-> NextVoice(reg, gender)])

\* psp: the voice is a function of the segment's gender and speaker labels.
PspVoice(speaker, gender) ==
    IF gender = "Male"
    THEN (IF speaker = "Speaker B" THEN "ar-SA-HamedNeural"
          ELSE "ar-EG-ShakirNeural")
    ELSE "ar-EG-SalmaNeural"

----------------------------------------------------------------------------
(* Gap handling *)

\* psp: `if start_gap_ms > 100`
PspFillsGap(start_gap_ms) == start_gap_ms > GapToleranceMs

\* Faulty variant: the silence leaves out the tolerated part of the gap.
PspSilenceShort(start_gap_ms) == start_gap_ms - GapToleranceMs

\* psp: generate_silence(int(start_gap_ms), sil_path)
PspSilenceMs(start_gap_ms) == start_gap_ms

\* pvt: `if seg_start > current_video_cursor`
PvtFillsGap(seg_start, cur) == seg_start > cur

----------------------------------------------------------------------------
(* Duration reconciliation *)

\* speed_up_audio: factor = max(1.0, min(speed_factor, 2.0))
ClampFactor(f) ==
    IF FactorLeq(f, AtempoMin) THEN AtempoMin
    ELSE IF FactorLeq(AtempoMax, f) THEN AtempoMax
    ELSE f

\* psp: which branch the ratio selects.
PspBranch(tts, target) ==
    LET r == Ratio(tts, target) IN
    IF FactorLeq(r, <<1, 1>>) THEN "pad"
    ELSE IF FactorLeq(r, PspCap) THEN "speed"
    ELSE "cap"

\* Faulty variant: every adjustment runs at the cap.
PspFactorAlwaysCap(tts, target) == PspCap

\* psp: the speed handed to adjust_speed in the branch.
PspFactor(tts, target) ==
    IF PspBranch(tts, target) = "speed" THEN Ratio(tts, target) ELSE PspCap

\* Faulty variant: the cursor follows the window, whatever was appended.
PspAdvanceWindow(tts, target) == target

\* psp: what is added to current_timeline_ms in the branch.
PspAdvance(tts, target) ==
    CASE PspBranch(tts, target) = "pad" -> tts
      [] PspBranch(tts, target) = "speed" -> target
      [] OTHER -> Stretch(tts, PspCap)

\* pvt: which scenario the ratio selects.
PvtBranch(generated, target) ==
    LET r == Ratio(generated, target) IN
    IF FactorLeq(r, <<1, 1>>) THEN "pad"
    ELSE IF FactorLeq(r, PvtCap) THEN "speed"
    ELSE "cap"

\* Faulty variant: the ratio itself is the speed, neither capped nor clamped.
PvtFactorRaw(generated, target) == Ratio(generated, target)

\* pvt: the speed atempo runs with in the branch.
PvtFactor(generated, target) ==
    IF PvtBranch(generated, target) = "speed"
    THEN ClampFactor(Ratio(generated, target))
    ELSE ClampFactor(PvtCap)

\* pvt: len(segment_audio) when it is appended to chunk_master_audio.
PvtSpeech(generated, target, speedOk) ==
    IF PvtBranch(generated, target) = "pad" THEN generated
    ELSE IF speedOk THEN Stretch(generated, PvtFactor(generated, target))
    ELSE generated

\* Faulty variant: the overrun is measured on the clip before it is sped up.
PvtFreezeUnsped(generated, target, speedOk, freezeOk) ==
    IF PvtBranch(generated, target) = "cap" /\ freezeOk
    THEN generated - target ELSE 0

\* pvt: extra_time of scenario C (0: no freeze part).
PvtFreeze(generated, target, speedOk, freezeOk) ==
    LET extra == PvtSpeech(generated, target, speedOk) - target IN
    IF PvtBranch(generated, target) = "cap" /\ extra > 0 /\ freezeOk
    THEN extra ELSE 0


----------------------------------------------------------------------------
(* The segment the transcription hands to iteration i of the loop starts    *)
(* gap ms after the previous one ended and lasts target ms: segments are    *)
(* time-ordered and do not overlap.                                         *)
SegStart(gap) == prevEnd + gap

SegEnd(gap, target) == prevEnd + gap + target

\* What an iteration did.  startGap: start*1000 - cursor when the segment is
\* taken up; speedCall / factor: the speed adjustment that was run, stretched:
\* it succeeded; advance: what was added to the cursor after the gap handling.
Step(branch, startGap, target, textLen, person, tts, call, ok, f, adv, voice) ==
    [branch |-> branch, startGap |-> startGap, target |-> target,
     textLen |-> textLen, speaker |-> person[1], gender |-> person[2],
     tts |-> tts, speedCall |-> call, stretched |-> ok,
     factor |-> f, advance |-> adv, voice |-> voice]

----------------------------------------------------------------------------
(* A chunk starts: the per-chunk state of either driver is initialised.     *)
StartChunk ==
    /\ pc = "idle"
    /\ chunk < MaxChunks
    /\ pc' = "loop"
    /\ i' = 0
    /\ prevEnd' = 0
    /\ cursor' = 0
    /\ audioMs' = 0
    /\ nFiles' = 0
    /\ emitted' = NoArtifacts
    /\ last' = NoLast
    /\ speaker_registry' = << >>
    /\ chunkOut' = NoChunkOut
    /\ UNCHANGED <<driver, scenario, chunk, voiceLog>>

(* psp: the cleaned text is empty or shorter than MinTextLen: `continue`.   *)
PspSkip(gap, target, textLen, person) ==
    /\ textLen < MinTextLen
    /\ i' = i + 1
    /\ prevEnd' = SegEnd(gap, target)
    /\ emitted' = NoArtifacts
    /\ last' = Step("skip", SegStart(gap) - cursor, target, textLen, person,
                    0, FALSE, FALSE, <<1, 1>>, 0, "")
    /\ UNCHANGED <<driver, scenario, pc, chunk, cursor, audioMs, nFiles,
                   speaker_registry, voiceLog, chunkOut>>

(* psp: synthesis failed: the original audio of the window is cut out and   *)
(* appended; the gap handling is not reached.                               *)
PspFallback(gap, target, textLen, person, extractOk) ==
    LET voice == PspVoice(person[1], person[2])
        file == Artifact("SPEECH", "original",
                         IF extractOk THEN target ELSE 0, extractOk)
    IN
    /\ textLen >= MinTextLen
    /\ i' = i + 1
    /\ prevEnd' = SegEnd(gap, target)
    /\ emitted' = <<file>>
    /\ audioMs' = audioMs + SumDur(<<file>>)
    /\ nFiles' = nFiles + 1
    /\ cursor' = cursor + target
    /\ last' = Step("fallback", SegStart(gap) - cursor, target, textLen,
                    person, 0, FALSE, FALSE, <<1, 1>>, target, voice)
    /\ voiceLog' = voiceLog \cup {<<person[1], voice>>}
    /\ UNCHANGED <<driver, scenario, pc, chunk, speaker_registry, chunkOut>>

(* psp: synthesis succeeded: gap handling, then the ratio branches.         *)
PspSynthesized(gap, target, textLen, person, tts, speedOk) ==
    LET voice == PspVoice(person[1], person[2])
        start_gap_ms == SegStart(gap) - cursor
        fill == PspFillsGap(start_gap_ms)
        silence ==
            IF fill
            THEN <<Artifact("SILENCE", "silent", PspSilenceMs(start_gap_ms),
                            TRUE)>>
            ELSE << >>
        atGap == IF fill THEN cursor + start_gap_ms ELSE cursor
        branch == PspBranch(tts, target)
        speech ==
            IF branch = "pad" THEN Artifact("SPEECH", "synth", tts, TRUE)
            ELSE Artifact("SPEECH", "synth",
                          IF speedOk THEN Stretch(tts, PspFactor(tts, target))
                          ELSE 0,
                          speedOk)
        files == silence \o <<speech>>
    IN
    /\ textLen >= MinTextLen
    /\ i' = i + 1
    /\ prevEnd' = SegEnd(gap, target)
    /\ emitted' = files
    /\ audioMs' = audioMs + SumDur(files)
    /\ nFiles' = nFiles + Len(files)
    /\ cursor' = atGap + PspAdvance(tts, target)
    /\ last' = Step(branch, start_gap_ms, target, textLen, person, tts,
                    branch # "pad", branch # "pad" /\ speedOk,
                    IF branch = "pad" THEN <<1, 1>> ELSE PspFactor(tts, target),
                    PspAdvance(tts, target), voice)
    /\ voiceLog' = voiceLog \cup {<<person[1], voice>>}
    /\ UNCHANGED <<driver, scenario, pc, chunk, speaker_registry, chunkOut>>

(* pvt: one iteration of the segment loop.                                  *)
PvtSegment(gap, target, textLen, person, ttsOk, tts, speedOk, freezeOk) ==
    LET seg_start == SegStart(gap)
        fill == PvtFillsGap(seg_start, cursor)
        gap_duration == seg_start - cursor
        silence ==
            IF fill
            THEN <<Artifact("SILENCE", "silent", gap_duration, TRUE)>>
            ELSE << >>
        atGap == IF fill THEN seg_start ELSE cursor
        reg == Register(speaker_registry, person[1], person[2])
        voice == Lookup(reg, SpeakerKey(person[1], person[2]))
        \* generate_audio_gemini returns at once on blank text
        made == textLen > 0 /\ ttsOk
        generated == IF made THEN tts ELSE FallbackSilenceMs
        origin == IF made THEN "synth" ELSE "silent"
        \* without the synthesized file there is nothing to speed up
        sped == made /\ speedOk
        branch == PvtBranch(generated, target)
        speech == Artifact("SPEECH", origin,
                           PvtSpeech(generated, target, sped), TRUE)
        extra == PvtFreeze(generated, target, sped, freezeOk)
        freeze == IF extra > 0
                  THEN <<Artifact("VIDEO_FREEZE", "frame", extra, TRUE)>>
                  ELSE << >>
        files == silence \o <<speech>> \o freeze
    IN
    /\ i' = i + 1
    /\ prevEnd' = SegEnd(gap, target)
    /\ speaker_registry' = reg
    /\ voiceLog' = IF textLen > 0 THEN voiceLog \cup {<<person[1], voice>>}
                   ELSE voiceLog
    /\ emitted' = files
    /\ audioMs' = audioMs + SumDur(files)
    /\ nFiles' = nFiles + Len(silence) + 1
    /\ cursor' = SegEnd(gap, target)
    /\ last' = Step(branch, gap_duration, target, textLen, person, generated,
                    branch # "pad", branch # "pad" /\ sped,
                    IF branch = "pad" THEN <<1, 1>>
                    ELSE PvtFactor(generated, target),
                    SegEnd(gap, target) - atGap, voice)
    /\ UNCHANGED <<driver, scenario, pc, chunk, chunkOut>>

(* The chunk's loop is over: the chunk's audio is concatenated, or the      *)
(* chunk is passed through when nothing was dubbed.  tail is the original   *)
(* video left after the last segment.  The loop's locals are dead from here *)
(* on and are put back to the values StartChunk gives them.                 *)
\* if audio_len_ms > (video_len_ms + 100)
NeedsStretch(audio_len_ms, video_len_ms) ==
    audio_len_ms > video_len_ms + MergeToleranceMs

\* The picture after setpts={stretch_ratio}*PTS, with
\* stretch_ratio = audio_len_ms / video_len_ms.
StretchedVideo(audio_len_ms, video_len_ms) ==
    (video_len_ms * audio_len_ms) \div video_len_ms

FinishChunk(tail) ==
    LET video == prevEnd + tail
        dubbed == IF driver = "psp" THEN nFiles > 0 ELSE i > 0
        stretched == driver = "psp" /\ dubbed /\ NeedsStretch(audioMs, video)
    IN
    /\ pc = "loop"
    /\ chunkOut' = [index |-> chunk,
                    audio |-> IF dubbed THEN audioMs ELSE video,
                    video |-> video, dubbed |-> dubbed,
                    output |-> IF dubbed THEN "dubbed" ELSE "original",
                    raised |-> "none", stretched |-> stretched,
                    picture |-> IF stretched THEN StretchedVideo(audioMs, video)
                                ELSE video]
    /\ pc' = "idle"
    /\ chunk' = chunk + 1
    /\ i' = 0
    /\ prevEnd' = 0
    /\ cursor' = 0
    /\ audioMs' = 0
    /\ nFiles' = 0
    /\ emitted' = NoArtifacts
    /\ last' = NoLast
    /\ speaker_registry' = << >>
    /\ UNCHANGED <<driver, scenario, voiceLog>>

\* The step of the merge at which process_segment_pipeline can raise: with
\* dubbed files, reading merged.wav when the unchecked concat left none, the
\* video stretch (check=True, needed when the audio is over 100 ms longer
\* than the video), audio_len_ms / video_len_ms when ffprobe failed and
\* original_video_dur stayed 0, and the mux (check=True); without dubbed
\* files, the copy of the input chunk (check=True).
CanRaise(cause, tail) ==
    IF nFiles > 0
    THEN \/ cause \in {"concat", "mux"}
         \/ cause = "stretch" /\ NeedsStretch(audioMs, prevEnd + tail)
         \/ cause = "zero_division" /\ tail = 0 /\ NeedsStretch(audioMs, 0)
    ELSE cause = "copy"

\* The merge of process_segment_pipeline raises: nothing is caught, the call
\* ends without having written output_chunk_path.
PspMergeRaises(tail, cause) ==
    /\ driver = "psp"
    /\ pc = "loop"
    /\ CanRaise(cause, tail)
    /\ chunkOut' = [index |-> chunk, audio |-> 0, video |-> 0,
                    dubbed |-> nFiles > 0, output |-> "none",
                    raised |-> cause, stretched |-> FALSE, picture |-> 0]
    /\ pc' = "idle"
    /\ chunk' = chunk + 1
    /\ i' = 0
    /\ prevEnd' = 0
    /\ cursor' = 0
    /\ audioMs' = 0
    /\ nFiles' = 0
    /\ emitted' = NoArtifacts
    /\ last' = NoLast
    /\ speaker_registry' = << >>
    /\ UNCHANGED <<driver, scenario, voiceLog>>

\* `for idx, seg in enumerate(segments)`: driver d has a segment left to handle.
InLoop(d) == driver = d /\ pc = "loop" /\ i < MaxSegs

PspSkipStep ==
    /\ UNCHANGED <<jobVars, applied>>
    /\ InLoop("psp")
    /\ \E gap \in Gaps(scenario), target \in Targets(scenario),
          textLen \in TextLens(scenario), person \in People(scenario) :
          PspSkip(gap, target, textLen, person)

PspFallbackStep ==
    /\ UNCHANGED <<jobVars, applied>>
    /\ InLoop("psp")
    /\ \E gap \in Gaps(scenario), target \in Targets(scenario),
          textLen \in TextLens(scenario), person \in People(scenario),
          extractOk \in Outcomes(scenario) :
          PspFallback(gap, target, textLen, person, extractOk)

PspSynthesizedStep ==
    /\ UNCHANGED <<jobVars, applied>>
    /\ InLoop("psp")
    /\ \E gap \in Gaps(scenario), target \in Targets(scenario),
          textLen \in TextLens(scenario), person \in People(scenario),
          tts \in TtsDurs(scenario), speedOk \in Outcomes(scenario) :
          \* an outcome that is not consulted is drawn once
          /\ PspBranch(tts, target) = "pad" => speedOk
          /\ PspSynthesized(gap, target, textLen, person, tts, speedOk)

PvtSegmentIter ==
    /\ InLoop("pvt")
    /\ \E gap \in Gaps(scenario), target \in Targets(scenario),
          textLen \in TextLens(scenario), person \in People(scenario),
          tts \in TtsDurs(scenario), ttsOk \in Outcomes(scenario),
          speedOk \in Outcomes(scenario), freezeOk \in Outcomes(scenario) :
          \* an outcome that is not consulted is drawn once
          /\ textLen = 0 => ttsOk
          /\ ~(textLen > 0 /\ ttsOk) =>
                speedOk /\ \A d \in TtsDurs(scenario) : tts <= d
          /\ LET generated == IF textLen > 0 /\ ttsOk THEN tts
                              ELSE FallbackSilenceMs
             IN /\ PvtBranch(generated, target) = "pad" => speedOk
                /\ PvtBranch(generated, target) # "cap" => freezeOk
          /\ PvtSegment(gap, target, textLen, person, ttsOk, tts, speedOk,
                        freezeOk)

PvtSegmentStep == PvtSegmentIter /\ UNCHANGED <<jobVars, applied>>

StartChunkStep == StartChunk /\ UNCHANGED <<jobVars, applied>>

FinishChunkStep ==
    /\ UNCHANGED <<jobVars, applied>>
    /\ \E tail \in Tails : FinishChunk(tail)

MergeErrors == {"concat", "stretch", "zero_division", "mux", "copy"}

PspMergeRaisesStep ==
    /\ UNCHANGED <<jobVars, applied>>
    /\ \E tail \in Tails, cause \in MergeErrors :
          PspMergeRaises(tail, cause)

Next ==
    \/ StartChunkStep
    \/ PspSkipStep
    \/ PspFallbackStep
    \/ PspSynthesizedStep
    \/ PvtSegmentStep
    \/ FinishChunkStep
    \/ PspMergeRaisesStep

Spec == Init /\ [][Next]_vars

----------------------------------------------------------------------------
(* process_video_task: one job from the background task's start to its end *)

Min(a, b) == IF a <= b THEN a ELSE b

\* range(i, stop, step) as the list of its values
RECURSIVE RangeFrom(_, _, _)
RangeFrom(n, stop, step) ==
    IF n < stop THEN <<n>> \o RangeFrom(n + step, stop, step) ELSE << >>

\* Faulty variant: the slice is not cut at the end of the audio.
ChunkWindowUnclamped(n, duration_ms, chunk_length_ms) ==
    [number |-> n \div chunk_length_ms, from |-> n, to |-> n + chunk_length_ms]

\* chunk = audio[i:i+chunk_length_ms], named ..._part_{i//chunk_length_ms}.mp3
ChunkWindow(n, duration_ms, chunk_length_ms) ==
    [number |-> n \div chunk_length_ms, from |-> n,
     to |-> Min(n + chunk_length_ms, duration_ms)]

split_audio_chunks(duration_ms, chunk_length_ms) ==
    LET starts == RangeFrom(0, duration_ms, chunk_length_ms) IN
    [k \in 1..Len(starts) |->
        ChunkWindow(starts[k], duration_ms, chunk_length_ms)]

\* A path is the sequence of the pieces it was put together from.
\* chunk_name = f"{audio_path}_part_{i//chunk_length_ms}.mp3"
ChunkPath(number) == <<"audio/base", ".mp3", "_part_", ToString(number), ".mp3">>

\* f"{chunk_path}_dubbed.mp3"
DubbedAudioPath(chunk_path) == chunk_path \o <<"_dubbed", ".mp3">>

\* f"{chunk_path}_dubbed.mp4"
DubbedVideoPath(chunk_path) == chunk_path \o <<"_dubbed", ".mp4">>

\* p.replace(".mp3", ".mp4"): every occurrence is replaced
ReplaceExt(path) ==
    [n \in 1..Len(path) |-> IF path[n] = ".mp3" THEN ".mp4" ELSE path[n]]

OnDisk(path) == path \in disk

\* final_video_parts, filtered by os.path.exists when the list is written
VideoList(parts) ==
    SelectSeq([n \in 1..Len(parts) |-> ReplaceExt(parts[n])], OnDisk)

JobInit ==
    /\ driver = "pvt"
    /\ scenario = "job"
    /\ SegIdle
    /\ applied = NoCall
    /\ status = "PENDING"
    /\ task = Entry(0, Message("received", 0, 0), NoResult)
    /\ stored \in {NoPayload,
                   Payload("PENDING", Entry(0, Message("received", 0, 0), NoResult))}
    /\ jpc = "task"
    /\ failure = "none"
    /\ srcDur \in Durations
    /\ chunk_files = << >>
    /\ final_audio_parts = << >>
    /\ disk = {}
    /\ lists = NoLists
    /\ stage = "none"
    /\ fileState = "none"
    /\ calls = << >>
    /\ raw_segments = NoSegments

\* db_update: the entry in LOCAL_TASKS is replaced; the JSON in the bucket is
\* replaced unless the upload fails, which is only logged.
db_update(st, progress, message, result) ==
    /\ status' = st
    /\ task' = Entry(progress, message, result)
    /\ \E persisted \in BOOLEAN :
          stored' = IF persisted THEN Payload(st, Entry(progress, message, result))
                    ELSE stored

\* What GET /status/{task_id} answers: the entry of LOCAL_TASKS when the
\* process has one, else the JSON from the bucket when it can be fetched,
\* else UNKNOWN.
get_task_status(in_memory, fetched) ==
    IF in_memory THEN Payload(status, task)
    ELSE IF fetched /\ stored # NoPayload THEN stored
    ELSE [status |-> "UNKNOWN", message |-> Message("not_found", 0, 0)]

\* overall_progress = 10 + int((idx / total_chunks) * 80)
overall_progress(idx, total_chunks) == 10 + (idx * 80) \div total_chunks

\* except Exception as e: db_update(task_id, "FAILED", 0, ...)
Fail(cause) ==
    /\ db_update("FAILED", 0, Message(cause, 0, 0), NoResult)
    /\ jpc' = "done"
    /\ failure' = cause

\* db_update(task_id, "EXTRACTING", ...)
BeginTask ==
    /\ jpc = "task"
    /\ db_update("EXTRACTING", 5, Message("extracting", 0, 0), NoResult)
    /\ jpc' = "extract"
    /\ UNCHANGED <<segVars, applied, failure, srcDur, chunk_files,
                   final_audio_parts, disk, lists, stage, fileState, calls,
                   raw_segments>>

\* extract_audio, whose result is not looked at, then split_audio_chunks,
\* which raises when the audio file is missing or a chunk cannot be exported.
ExtractAndSplit(extractOk, exportOk) ==
    /\ jpc = "extract"
    /\ IF ~extractOk THEN Fail("split_load") /\ UNCHANGED chunk_files
       ELSE IF srcDur > 0 /\ ~exportOk
       THEN Fail("split_export") /\ UNCHANGED chunk_files
       ELSE /\ chunk_files' = split_audio_chunks(srcDur, ChunkLengthMs)
            /\ jpc' = "chunks"
            /\ UNCHANGED <<status, task, stored, failure>>
    /\ UNCHANGED <<segVars, applied, srcDur, final_audio_parts, disk, lists,
                   stage, fileState, calls, raw_segments>>

\* for idx, chunk_path in enumerate(chunk_files): db_update(..., "PROCESSING")
ChunkHead ==
    /\ jpc = "chunks"
    /\ chunk < Len(chunk_files)
    /\ db_update("PROCESSING", overall_progress(chunk, Len(chunk_files)),
                 Message("chunk", chunk + 1, Len(chunk_files)), NoResult)
    /\ jpc' = "whisper"
    /\ calls' = << >>
    /\ raw_segments' = NoSegments
    /\ UNCHANGED <<segVars, applied, failure, srcDur, chunk_files,
                   final_audio_parts, disk, lists, stage, fileState>>

(* smart_transcribe (main.py), step by step *)

Invoked(provider, outcome) == [provider |-> provider, outcome |-> outcome]

\* `return ...` of smart_transcribe
Return(from, segments) ==
    /\ raw_segments' = [from |-> from, segments |-> segments]
    /\ jpc' = "transcribed"
    /\ stage' = "none"
    /\ fileState' = "none"

\* What an exception in the Gemini stage returns: the raw Whisper segments
\* from the enrichment stage, [] from the legacy stage.
ReturnOnError ==
    IF stage = "enrich" THEN Return("whisper", TRUE) ELSE Return("none", FALSE)

\* Stage 1, Groq Whisper: segments, a transcription without segments, or an
\* exception; without segments the legacy Gemini stage is entered.
Whisper(outcome) ==
    /\ jpc = "whisper"
    /\ calls' = Append(calls, Invoked("whisper", outcome))
    /\ stage' = IF outcome = "segments" THEN "enrich" ELSE "native"
    /\ jpc' = "upload"
    /\ UNCHANGED <<segVars, applied, status, task, stored, failure, srcDur, chunk_files,
                   final_audio_parts, disk, lists, fileState, raw_segments>>

\* gemini_client.files.upload(file=audio_path)
Upload(ok, state) ==
    /\ jpc = "upload"
    /\ calls' = IF stage = "native"
                THEN Append(calls, Invoked("gemini_native", "invoked"))
                ELSE calls
    /\ IF ok
       THEN /\ fileState' = state
            /\ jpc' = "wait"
            /\ UNCHANGED <<stage, raw_segments>>
       ELSE ReturnOnError
    /\ UNCHANGED <<segVars, applied, status, task, stored, failure, srcDur, chunk_files,
                   final_audio_parts, disk, lists>>

\* while gl_file.state.name == "PROCESSING":
WaitTest ==
    /\ jpc = "wait"
    /\ jpc' = IF fileState = "PROCESSING" THEN "sleeping" ELSE "generate"
    /\ UNCHANGED <<segVars, applied, status, task, stored, failure, srcDur, chunk_files,
                   final_audio_parts, disk, lists, stage, fileState, calls,
                   raw_segments>>

\* time.sleep(1); gl_file = gemini_client.files.get(name=gl_file.name)
SleepGet(ok, state) ==
    /\ jpc = "sleeping"
    /\ IF ok
       THEN /\ fileState' = state
            /\ jpc' = "wait"
            /\ UNCHANGED <<stage, raw_segments>>
       ELSE ReturnOnError
    /\ UNCHANGED <<segVars, applied, status, task, stored, failure, srcDur, chunk_files,
                   final_audio_parts, disk, lists, calls>>

\* generate_content of the enrichment stage: a JSON answer enriches the
\* Whisper segments, an exception leaves them raw, and an answer without text
\* leaves the `if segments:` block for the legacy stage below it.
Enrich(outcome) ==
    /\ jpc = "generate"
    /\ stage = "enrich"
    /\ calls' = Append(calls, Invoked("gemini_enrich", outcome))
    /\ IF outcome = "empty"
       THEN /\ stage' = "native"
            /\ jpc' = "upload"
            /\ fileState' = "none"
            /\ UNCHANGED raw_segments
       ELSE Return("whisper", TRUE)
    /\ UNCHANGED <<segVars, applied, status, task, stored, failure, srcDur, chunk_files,
                   final_audio_parts, disk, lists>>

\* generate_content of the legacy stage: json.loads(response.text), or [].
Native(outcome) ==
    /\ jpc = "generate"
    /\ stage = "native"
    /\ calls' = Append(calls, Invoked("gemini_native", outcome))
    /\ IF outcome = "segments" THEN Return("gemini", TRUE)
       ELSE Return("none", FALSE)
    /\ UNCHANGED <<segVars, applied, status, task, stored, failure, srcDur, chunk_files,
                   final_audio_parts, disk, lists>>

(* The chunk loop of process_video_task *)

\* if not raw_segments: final_audio_parts.append(chunk_path); continue
NoSpeech ==
    /\ jpc = "transcribed"
    /\ ~raw_segments.segments
    /\ final_audio_parts' =
          Append(final_audio_parts, ChunkPath(chunk_files[chunk + 1].number))
    /\ chunk' = chunk + 1
    /\ jpc' = "chunks"
    /\ UNCHANGED <<driver, scenario, pc, i, prevEnd, cursor, audioMs, nFiles,
                   emitted, last, speaker_registry, voiceLog, chunkOut>>
    /\ UNCHANGED <<applied, status, task, stored, failure, srcDur, chunk_files, disk, lists,
                   stage, fileState, calls, raw_segments>>

\* The elastic-sync state of the chunk is set up.
JobStartLoop ==
    /\ jpc = "transcribed"
    /\ raw_segments.segments
    /\ StartChunk
    /\ jpc' = "loop"
    /\ UNCHANGED <<applied, status, task, stored, failure, srcDur, chunk_files,
                   final_audio_parts, disk, lists, stage, fileState, calls,
                   raw_segments>>

JobSegment ==
    /\ jpc = "loop"
    /\ PvtSegmentIter
    /\ UNCHANGED <<jobVars, applied>>

\* The loop is over: chunk_master_audio is exported and appended to
\* final_audio_parts, then the chunk's video parts are concatenated with
\* check=True.
ExportChunk(tail, exportOk, concatOk) ==
    LET chunk_path == ChunkPath(chunk_files[chunk + 1].number) IN
    /\ jpc = "loop"
    /\ i > 0
    /\ IF ~exportOk
       THEN /\ Fail("chunk_export")
            /\ UNCHANGED <<segVars, final_audio_parts, disk>>
       ELSE /\ final_audio_parts' =
                  Append(final_audio_parts, DubbedAudioPath(chunk_path))
            /\ IF concatOk
               THEN /\ disk' = disk \cup {DubbedVideoPath(chunk_path)}
                    /\ FinishChunk(tail)
                    /\ jpc' = "chunks"
                    /\ UNCHANGED <<status, task, stored, failure>>
               ELSE /\ Fail("chunk_concat")
                    /\ UNCHANGED <<segVars, disk>>
    /\ UNCHANGED <<applied, srcDur, chunk_files, lists, stage, fileState,
                   calls, raw_segments>>

\* db_update(task_id, "MERGING", ...)
BeginMerge ==
    /\ jpc = "chunks"
    /\ chunk = Len(chunk_files)
    /\ db_update("MERGING", 90, Message("merging", 0, 0), NoResult)
    /\ jpc' = "merge"
    /\ UNCHANGED <<segVars, applied, failure, srcDur, chunk_files,
                   final_audio_parts, disk, lists, stage, fileState, calls,
                   raw_segments>>

\* The audio list is written and concatenated, the video list is written and
\* concatenated, both are muxed: every ffmpeg run has check=True.  The video
\* list is written only after the audio parts were concatenated.
Assemble(audioOk, videoOk, muxOk) ==
    /\ jpc = "merge"
    /\ lists' = [audio |-> final_audio_parts,
                 video |-> IF audioOk THEN VideoList(final_audio_parts)
                           ELSE << >>]
    /\ IF ~audioOk THEN Fail("merge_audio")
       ELSE IF ~videoOk THEN Fail("merge_video")
       ELSE IF ~muxOk THEN Fail("mux")
       ELSE /\ db_update("UPLOADING", 95, Message("uploading", 0, 0), NoResult)
            /\ jpc' = "upload_result"
            /\ UNCHANGED failure
    /\ UNCHANGED <<segVars, applied, srcDur, chunk_files, final_audio_parts,
                   disk, stage, fileState, calls, raw_segments>>

\* upload_to_storage gives a signed URL, or None when anything in it fails;
\* db_update COMPLETED with that URL either way.
Complete(url) ==
    /\ jpc = "upload_result"
    /\ db_update("COMPLETED", 100, Message("done", 0, 0), Result(url))
    /\ jpc' = "cleanup"
    /\ UNCHANGED <<segVars, applied, failure, srcDur, chunk_files,
                   final_audio_parts, disk, lists, stage, fileState, calls,
                   raw_segments>>

\* An error of the cleanup that reaches the task's `except Exception`.
CleanupUnguarded(removed) == ~removed

\* The cleanup is inside `try: ... except: pass`: nothing leaves it.
CleanupRaises(removed) == FALSE

\* The files are removed, then the task returns.
Cleanup(removed) ==
    /\ jpc = "cleanup"
    /\ IF CleanupRaises(removed)
       THEN Fail("cleanup")
       ELSE /\ jpc' = "done"
            /\ UNCHANGED <<status, task, stored, failure>>
    /\ UNCHANGED <<segVars, applied, srcDur, chunk_files, final_audio_parts,
                   disk, lists, stage, fileState, calls, raw_segments>>

CompleteStep == \E url \in {"signed_url", "None"} : Complete(url)

CleanupStep == \E removed \in BOOLEAN : Cleanup(removed)

ExtractAndSplitStep ==
    \E extractOk \in BOOLEAN, exportOk \in BOOLEAN :
        /\ ~extractOk => exportOk
        /\ ExtractAndSplit(extractOk, exportOk)

WhisperStep ==
    \E outcome \in {"segments", "no_segments", "error"} : Whisper(outcome)

UploadStep ==
    \E ok \in BOOLEAN, state \in {"PROCESSING", "ACTIVE"} :
        /\ ~ok => state = "ACTIVE"
        /\ Upload(ok, state)

SleepGetStep ==
    \E ok \in BOOLEAN, state \in {"PROCESSING", "ACTIVE"} :
        /\ ~ok => state = "ACTIVE"
        /\ SleepGet(ok, state)

EnrichStep == \E outcome \in {"json", "empty", "error"} : Enrich(outcome)

NativeStep ==
    \E outcome \in {"segments", "no_segments", "empty", "error"} :
        Native(outcome)

ExportChunkStep ==
    \E tail \in Tails, exportOk \in BOOLEAN, concatOk \in BOOLEAN :
        /\ ~exportOk => concatOk /\ tail = 0
        /\ ~concatOk => tail = 0
        /\ ExportChunk(tail, exportOk, concatOk)

AssembleStep ==
    \E audioOk \in BOOLEAN, videoOk \in BOOLEAN, muxOk \in BOOLEAN :
        /\ ~audioOk => videoOk
        /\ ~videoOk => muxOk
        /\ Assemble(audioOk, videoOk, muxOk)

JobNext ==
    \/ BeginTask
    \/ ExtractAndSplitStep
    \/ ChunkHead
    \/ WhisperStep
    \/ UploadStep
    \/ WaitTest
    \/ SleepGetStep
    \/ EnrichStep
    \/ NativeStep
    \/ NoSpeech
    \/ JobStartLoop
    \/ JobSegment
    \/ ExportChunkStep
    \/ BeginMerge
    \/ AssembleStep
    \/ CompleteStep
    \/ CleanupStep

JobSpec == JobInit /\ [][JobNext]_vars

\* The task keeps running: it is a background task of the server.
LiveJobSpec == JobSpec /\ WF_vars(JobNext)

----------------------------------------------------------------------------
(* Helper calls: JobManager.create_job and the two generate_audio_gemini *)

\* Characters are their code points: "." is 46, "0".."9" are 48..57.
RECURSIVE DigitsOf(_)
DigitsOf(n) ==
    IF n < 10 THEN <<48 + n>> ELSE DigitsOf(n \div 10) \o <<48 + (n % 10)>>

ZeroPad(digits, width) ==
    IF Len(digits) >= width THEN digits
    ELSE [k \in 1..(width - Len(digits)) |-> 48] \o digits

\* f"{job_id}_%03d.mp4" for the segment number n, without the prefix all the
\* segments of a job share.
SegmentName(n) == ZeroPad(DigitsOf(n), PadWidth) \o <<46, 109, 112, 52>>

\* str.__lt__
LexLess(a, b) ==
    LET differ == {k \in 1..Min(Len(a), Len(b)) : a[k] # b[k]} IN
    IF differ = {} THEN Len(a) < Len(b)
    ELSE LET first == CHOOSE k \in differ : \A j \in differ : k <= j
         IN  a[first] < b[first]

\* sorted(names)
Sorted(names) ==
    LET placed == {<<Cardinality({y \in names : LexLess(y, x)}) + 1, x>> :
                       x \in names}
    IN  [k \in 1..Cardinality(names) |->
            (CHOOSE p \in placed : p[1] = k)[2]]

\* create_job: the job row is inserted (unless the database is unreachable),
\* ffmpeg splits the file with check=True, the files found by glob are sorted
\* and one segment row per file is inserted under its position in that order.
create_job(dbOk, splitOk, count) ==
    LET job_row == IF dbOk THEN "pending" ELSE "none"
        segments == Sorted({SegmentName(n) : n \in 0..(count - 1)})
    IN  IF ~splitOk
        THEN [fn |-> "create_job", raised |-> TRUE, job_row |-> job_row,
              segments |-> << >>, segment_rows |-> << >>]
        ELSE [fn |-> "create_job", raised |-> FALSE, job_row |-> job_row,
              segments |-> segments,
              segment_rows |-> IF dbOk
                               THEN [k \in 1..Len(segments) |-> k - 1]
                               ELSE << >>]

CreateJob(dbOk, splitOk, count) ==
    /\ applied = NoCall
    /\ applied' = <<create_job(dbOk, splitOk, count)>>
    /\ UNCHANGED <<segVars, jobVars>>

CreateJobStep ==
    \E dbOk \in BOOLEAN, splitOk \in BOOLEAN, count \in SegmentCounts :
        /\ ~splitOk => count = 0
        /\ CreateJob(dbOk, splitOk, count)

Attempt(mode, outcome) == [mode |-> mode, outcome |-> outcome]

\* The SSML script kept from Gemini's answer: only one that starts with
\* "<speak".
HasSsml(ssmlGen) == ssmlGen = "speak"

\* The voices a caller passes as voice_name.
VoiceNames == {"ar-EG-ShakirNeural", "ar-SA-HamedNeural"}

\* speech_config.speech_synthesis_voice_name = "ar-EG-ShakirNeural" (main.py);
\* an SSML script carries the voice its prompt names: voice_name.
MainVoice(mode, voice_name) ==
    IF mode = "ssml" THEN voice_name ELSE "ar-EG-ShakirNeural"

\* speech_config.speech_synthesis_voice_name = voice_name (processing.py);
\* an SSML script carries the voice its prompt names: ar-EG-ShakirNeural.
PipelineVoice(mode, voice_name) ==
    IF mode = "ssml" THEN "ar-EG-ShakirNeural" ELSE voice_name

\* generate_audio_gemini of main.py
MainSynth(blank, ssmlGen, keys, first, retry, voice_name) ==
    LET ssml == HasSsml(ssmlGen)
        mode == IF ssml THEN "ssml" ELSE "text"
        attempts ==
            IF blank \/ ~keys THEN << >>
            ELSE IF first = "canceled" /\ ssml
                 THEN <<Attempt(mode, first), Attempt("text", retry)>>
                 ELSE <<Attempt(mode, first)>>
    IN  [fn |-> "main.generate_audio_gemini", blank |-> blank, ssml |-> ssml,
         attempts |-> attempts,
         voice_name |-> voice_name,
         voices |-> [k \in 1..Len(attempts) |->
                        MainVoice(attempts[k].mode, voice_name)],
         result |-> /\ attempts # << >>
                    /\ \A k \in 1..(Len(attempts) - 1) :
                          attempts[k].outcome = "canceled"
                    /\ attempts[Len(attempts)].outcome = "completed"]

\* generate_audio_gemini of services/processing.py
PipelineSynth(ssmlGen, first, voice_name) ==
    LET ssml == HasSsml(ssmlGen)
        mode == IF ssml THEN "ssml" ELSE "text"
    IN  [fn |-> "processing.generate_audio_gemini", blank |-> FALSE,
         ssml |-> ssml, attempts |-> <<Attempt(mode, first)>>,
         voice_name |-> voice_name,
         voices |-> <<PipelineVoice(mode, voice_name)>>,
         result |-> first = "completed"]

SsmlAnswers == {"speak", "other", "empty", "error", "no_client"}

SynthOutcomes == {"completed", "canceled", "error"}

MainSynthStep ==
    /\ Len(applied) < MaxCalls
    /\ \E blank \in BOOLEAN, ssmlGen \in SsmlAnswers, keys \in BOOLEAN,
          first \in SynthOutcomes, retry \in SynthOutcomes,
          voice_name \in VoiceNames :
          applied' = Append(applied, MainSynth(blank, ssmlGen, keys, first, retry,
                                               voice_name))
    /\ UNCHANGED <<segVars, jobVars>>

PipelineSynthStep ==
    /\ Len(applied) < MaxCalls
    /\ \E ssmlGen \in SsmlAnswers, first \in SynthOutcomes,
          voice_name \in VoiceNames :
          applied' = Append(applied, PipelineSynth(ssmlGen, first, voice_name))
    /\ UNCHANGED <<segVars, jobVars>>

CallInit ==
    /\ JobIdle
    /\ SegIdle
    /\ driver = "psp"
    /\ scenario = "calls"
    /\ applied = NoCall

CallNext == CreateJobStep \/ MainSynthStep \/ PipelineSynthStep

CallSpec == CallInit /\ [][CallNext]_vars

----------------------------------------------------------------------------
(* Pure functions applied to the inputs they can be given *)

\* A transcribed segment; text stands for len(seg["text"]).
Segment(id, start, end, text, speaker) == [id |-> id, start |-> start, end |-> end, text |-> text, speaker |-> speaker]

FlowGaps == {-500, GapThresholdMs - 1, GapThresholdMs}

FlowTexts == {MaxChars \div 2 - 1, MaxChars \div 2}

\* seg.get("speaker"): a label, or None when enrichment gave none.
FlowSpeakers == {"Speaker A", "Speaker B", "None"}

FlowDurMs == 1000

\* Lists of n segments, each placed after the one before it.
RECURSIVE FlowInputs(_)
FlowInputs(n) ==
    IF n = 0 THEN {<< >>}
    ELSE {Append(s, Segment(n - 1,
                            (IF s = << >> THEN 0 ELSE s[Len(s)].end) + gap,
                            (IF s = << >> THEN 0 ELSE s[Len(s)].end) + gap + FlowDurMs,
                            text, speaker)) :
            s \in FlowInputs(n - 1), gap \in FlowGaps, text \in FlowTexts,
            speaker \in FlowSpeakers}

\* A variant that merges across a gap of exactly gap_threshold.
ShouldMergeInclusive(current_group, next_seg) ==
    /\ next_seg.start - current_group.end <= GapThresholdMs
    /\ current_group.text + next_seg.text < MaxChars
    /\ current_group.speaker = next_seg.speaker

\* A variant that merges up to a text sum of exactly max_chars.
ShouldMergeLong(current_group, next_seg) ==
    /\ next_seg.start - current_group.end < GapThresholdMs
    /\ current_group.text + next_seg.text <= MaxChars
    /\ current_group.speaker = next_seg.speaker

\* time_gap < gap_threshold and (len(...) + len(...)) < max_chars and same_speaker
ShouldMerge(current_group, next_seg) ==
    /\ next_seg.start - current_group.end < GapThresholdMs
    /\ current_group.text + next_seg.text < MaxChars
    /\ current_group.speaker = next_seg.speaker

\* current_group["text"] += " " + next_seg["text"]; current_group["end"] = next_seg["end"]
MergeInto(current_group, next_seg) ==
    [current_group EXCEPT !.text = @ + 1 + next_seg.text, !.end = next_seg.end]

\* A group that is the input's own dict: entry k of the list.
Shared(k) == k

\* segments[k].copy(): a new dict, which is no entry of the input list (0).
Copy(k) == 0

\* for next_seg in segments[1:]: ...; optimized.append(current_group)
\* held is the entry of the input list that current_group is (0: none);
\* segments is the input list, which a write to one of its dicts changes.
RECURSIVE Flow(_, _, _, _, _)
Flow(current_group, held, rest, optimized, segments) ==
    IF rest = << >>
    THEN [optimized |-> Append(optimized, current_group), segments |-> segments]
    ELSE IF ShouldMerge(current_group, Head(rest))
         THEN Flow(MergeInto(current_group, Head(rest)), held, Tail(rest), optimized,
                   IF held = 0 THEN segments
                   ELSE [segments EXCEPT ![held] = MergeInto(current_group, Head(rest))])
         ELSE Flow(Head(rest), Copy(Len(segments) - Len(rest) + 1), Tail(rest),
                   Append(optimized, current_group), segments)

optimize_segments_for_flow(segments) ==
    IF segments = << >> THEN << >>
    ELSE Flow(segments[1], Copy(1), Tail(segments), << >>, segments).optimized

\* The caller's list once the call has returned.
InputAfter(segments) ==
    IF segments = << >> THEN << >>
    ELSE Flow(segments[1], Copy(1), Tail(segments), << >>, segments).segments

Optimize(segments) ==
    /\ applied = NoCall
    /\ applied' = <<[fn |-> "optimize_segments_for_flow",
                     segments |-> segments,
                     after |-> InputAfter(segments),
                     result |-> optimize_segments_for_flow(segments)]>>
    /\ UNCHANGED <<segVars, jobVars>>

OptimizeStep ==
    \E n \in 0..MaxFlowSegs : \E segments \in FlowInputs(n) : Optimize(segments)

\* Text lengths and segment durations (ms) around the condensing threshold.
CondenseTexts == {2, 13, 16, 17, 64, 65, 66, 67, 68, 130}

CondenseTargets == {0, 1000, 4000}

\* A variant with the factor 13/10.
TooLongLoose(len, target_dur) ==
    len * 1000 * 10 > target_dur * 13 * EstCharsPerSec

\* est_duration > max_acceptable_dur, with est_duration = len(text) / 13 and
\* max_acceptable_dur = target_dur * 1.25 (target_dur in ms here).
TooLong(len, target_dur) ==
    len * 1000 * PspCap[2] > target_dur * PspCap[1] * EstCharsPerSec

\* needed_reduction < 0.1, with needed_reduction = 1.0 - target / est
SmallReduction(len, target_dur) ==
    9 * len * 1000 < 10 * target_dur * EstCharsPerSec

\* condense_text: whether Gemini is asked for a shorter text, and the length
\* of the text that comes back (the text itself when nothing is asked or the
\* request fails).
condense_text(len, target_dur, client, shorter) ==
    IF ~client \/ SmallReduction(len, target_dur)
    THEN [requested |-> FALSE, text |-> len]
    ELSE [requested |-> TRUE, text |-> IF shorter > 0 THEN shorter ELSE len]

\* if est_duration > max_acceptable_dur: text = condense_text(...)
Condensation(len, target_dur, client, shorter) ==
    IF TooLong(len, target_dur)
    THEN condense_text(len, target_dur, client, shorter)
    ELSE [requested |-> FALSE, text |-> len]

\* shorter: the length of Gemini's answer, 0 for a failed request.
CondenseStep ==
    /\ applied = NoCall
    /\ \E len \in CondenseTexts, target_dur \in CondenseTargets,
          client \in BOOLEAN, shorter \in {0, 10} :
          /\ ~client => shorter = 0
          /\ applied' = <<[fn |-> "condensation", len |-> len,
                           target_dur |-> target_dur, client |-> client,
                           result |-> Condensation(len, target_dur, client, shorter)]>>
    /\ UNCHANGED <<segVars, jobVars>>

\* What one iteration of the pipeline's loop did: the branch it took, whether
\* a silence file was made for the gap before it, and whether the synthesizer
\* left a file although it reported failure.
ScratchSegments ==
    [branch : {"skip", "fallback", "pad", "speed", "cap"}, gap : BOOLEAN, raw : BOOLEAN]

File(kind, idx) == <<kind, idx>>

\* Files iteration idx creates.
Made(seg, idx) ==
    CASE seg.branch = "skip" -> {}
      [] seg.branch = "fallback" ->
            (IF seg.raw THEN {File("tts_raw", idx)} ELSE {}) \cup {File("tts_final", idx)}
      [] seg.branch = "pad" ->
            {File("tts_raw", idx), File("tts_clean", idx)}
                \cup (IF seg.gap THEN {File("sil", idx)} ELSE {})
      [] OTHER ->
            {File("tts_raw", idx), File("tts_clean", idx), File("tts_final", idx)}
                \cup (IF seg.gap THEN {File("sil", idx)} ELSE {})

\* Files iteration idx appends to dubbed_files.
Dubbed(seg, idx) ==
    CASE seg.branch = "skip" -> {}
      [] seg.branch = "fallback" -> {File("tts_final", idx)}
      [] seg.branch = "pad" ->
            {File("tts_clean", idx)} \cup (IF seg.gap THEN {File("sil", idx)} ELSE {})
      [] OTHER ->
            {File("tts_final", idx)} \cup (IF seg.gap THEN {File("sil", idx)} ELSE {})

\* Files iteration idx removes: `for p in [tts_raw]`, reached only when the
\* iteration was not left by `continue`.
Dropped(seg, idx) ==
    IF seg.branch \in {"pad", "speed", "cap"} THEN {File("tts_raw", idx)} ELSE {}

\* The scratch files one call of process_segment_pipeline leaves behind;
\* ending is "returned", or "raised" when the mux fails.
PipelineScratch(segs, ending) ==
    LET ids == 1..Len(segs)
        made == UNION {Made(segs[k], k - 1) : k \in ids}
        dubbed_files == UNION {Dubbed(segs[k], k - 1) : k \in ids}
        dropped == UNION {Dropped(segs[k], k - 1) : k \in ids}
        merge == IF dubbed_files = {} THEN {}
                 ELSE {File("concat_list", 0), File("merged_wav", 0)}
        all == made \cup merge \cup {File("source_audio", 0)}
    IN  IF ending = "returned"
        THEN ((all \ dropped) \ dubbed_files) \ (merge \cup {File("source_audio", 0)})
        ELSE all \ dropped

ScratchStep ==
    /\ applied = NoCall
    /\ \E n \in 1..MaxSegs : \E segs \in [1..n -> ScratchSegments] :
       \E ending \in {"returned", "raised"} :
          /\ \A k \in 1..n : segs[k].raw => segs[k].branch = "fallback"
          /\ \A k \in 1..n : segs[k].gap => segs[k].branch \in {"pad", "speed", "cap"}
          /\ ending = "raised" => \E k \in 1..n : segs[k].branch # "skip"
          /\ applied' = <<[fn |-> "pipeline_scratch", segs |-> segs,
                           ending |-> ending,
                           left |-> PipelineScratch(segs, ending)]>>
    /\ UNCHANGED <<segVars, jobVars>>

\* The loops that retry: the enrichment request of smart_transcribe
\* (processing.py) and the inserts and the fetch of DatabaseService.
RetryLoops == {"enrich", "insert", "fetch"}

RetryOutcomes(loop) ==
    IF loop = "enrich" THEN {"ok", "quota", "not_found", "error"}
    ELSE {"ok", "error"}

\* A loop that goes on after a success.
NeverBreaks(outcome) == FALSE

\* break  # Success / return res.data
Succeeded(outcome) == outcome = "ok"

\* time.sleep(...) after failed attempt number attempt (from 0), in seconds
WaitOf(loop, outcome, attempt) ==
    IF loop # "enrich" THEN 1
    ELSE IF outcome = "quota" THEN (attempt + 1) * 10
    ELSE IF outcome = "not_found" THEN 1
    ELSE 2

\* for attempt in range(max_retries): the attempts made, each with its
\* outcome and the wait after it (0 after a success).
RECURSIVE Retry(_, _, _, _)
Retry(loop, outcomes, attempt, log) ==
    IF attempt >= MaxRetries THEN log
    ELSE IF Succeeded(outcomes[attempt + 1])
         THEN Append(log, [outcome |-> outcomes[attempt + 1], wait |-> 0])
         ELSE Retry(loop, outcomes, attempt + 1,
                    Append(log, [outcome |-> outcomes[attempt + 1],
                                 wait |-> WaitOf(loop, outcomes[attempt + 1], attempt)]))

\* outcomes[k] is what attempt k would meet if it is made.
RetryStep ==
    /\ applied = NoCall
    /\ \E loop \in RetryLoops :
       \E outcomes \in [1..(MaxRetries + 1) -> RetryOutcomes(loop)] :
          applied' = <<[fn |-> "retry", loop |-> loop, outcomes |-> outcomes,
                        attempts |-> Retry(loop, outcomes, 0, << >>)]>>
    /\ UNCHANGED <<segVars, jobVars>>

UnitInit ==
    /\ JobIdle
    /\ SegIdle
    /\ driver = "psp"
    /\ scenario = "units"
    /\ applied = NoCall

UnitNext == OptimizeStep \/ CondenseStep \/ ScratchStep \/ RetryStep

UnitSpec == UnitInit /\ [][UnitNext]_vars

----------------------------------------------------------------------------
(* Properties *)

\* 0 when s holds no SPEECH artifact, else the position of the first one.
SpeechIx(s) ==
    IF \E n \in 1..Len(s) : s[n].kind = "SPEECH"
    THEN CHOOSE n \in 1..Len(s) :
            s[n].kind = "SPEECH" /\ \A m \in 1..(n - 1) : s[m].kind # "SPEECH"
    ELSE 0

\* The audio the iteration appended for the segment itself: its SPEECH
\* artifact and whatever audio follows it.
OwnAudio(s) ==
    IF SpeechIx(s) = 0 THEN 0 ELSE SumDur(SubSeq(s, SpeechIx(s), Len(s)))

HasFreeze(s) == \E n \in 1..Len(s) : s[n].kind = "VIDEO_FREEZE"

RECURSIVE SilenceDur(_)
SilenceDur(s) ==
    IF s = << >> THEN 0
    ELSE (IF Head(s).kind = "SILENCE" THEN Head(s).dur ELSE 0)
         + SilenceDur(Tail(s))

AllExist(s) == \A n \in 1..Len(s) : s[n].exists

\* The last iteration appended a synthesized clip.
Synthesized ==
    /\ last.branch \in {"pad", "speed", "cap"}
    /\ SpeechIx(emitted) > 0
    /\ emitted[SpeechIx(emitted)].origin = "synth"

LastRatio == Ratio(last.tts, last.target)

SameFactor(f, g) == FactorLeq(f, g) /\ FactorLeq(g, f)

\* C1: a synthesized clip that is no longer than its window (ratio <= 1.0) is
\* emitted with trailing silence so that the audio of the segment lasts
\* exactly the window, and the cursor advances by exactly the window.
C1_PadFillsWindow ==
    (Synthesized /\ FactorLeq(LastRatio, <<1, 1>>)) =>
        /\ OwnAudio(emitted) = last.target
        /\ last.advance = last.target

\* The clip of the last iteration overran its window by at most a quarter.
SlightlyLong ==
    /\ Synthesized
    /\ ~FactorLeq(LastRatio, <<1, 1>>)
    /\ FactorLeq(LastRatio, <<5, 4>>)

\* The clip was sped up by its ratio to last exactly the window: no freeze,
\* and the cursor advanced by the window.
FitsWindow ==
    /\ last.stretched
    /\ SameFactor(last.factor, LastRatio)
    /\ emitted[SpeechIx(emitted)].exists
    /\ emitted[SpeechIx(emitted)].dur = last.target
    /\ ~HasFreeze(emitted)
    /\ last.advance = last.target

FreezeAfterSpeech(extra) ==
    /\ Len(emitted) = SpeechIx(emitted) + 1
    /\ emitted[Len(emitted)].kind = "VIDEO_FREEZE"
    /\ emitted[Len(emitted)].dur = extra

C4_FactorWithinFiveQuarters ==
    last.stretched =>
        FactorLeq(<<1, 1>>, last.factor) /\ FactorLeq(last.factor, <<5, 4>>)

\* C4: whenever a speed adjustment is run, its factor lies within [1.0, 1.25]
\* in process_segment_pipeline and within [1.0, 1.3] in process_video_task.
C4_FactorWithinDriverCap ==
    last.speedCall =>
        /\ FactorLeq(<<1, 1>>, last.factor)
        /\ FactorLeq(last.factor,
                     IF driver = "psp" THEN <<5, 4>> ELSE <<13, 10>>)

C4_Witness ==
    /\ driver = "pvt"
    /\ last.speedCall
    /\ last.tts = 2600
    /\ SameFactor(last.factor, <<13, 10>>)

\* C5: for every segment that produces an artifact, by synthesis or by the
\* original-audio fallback, whose start lies more than 100 ms after the cursor,
\* a SILENCE artifact of exactly that gap is emitted before the segment's own
\* artifact and the cursor is advanced by it, so that the segment's artifact
\* begins at the segment's original start.
C5_GapFilledBeforeArtifact ==
    (SpeechIx(emitted) > 0 /\ AllExist(emitted)
       /\ last.startGap > GapToleranceMs) =>
        /\ SpeechIx(emitted) = 2
        /\ emitted[1].kind = "SILENCE"
        /\ emitted[1].dur = last.startGap
        /\ cursor - last.advance = prevEnd - last.target

\* One iteration of the segment loop moves the cursor forward only, and
\* what it moves the cursor by before the segment's own advance is the
\* duration of the SILENCE it emits.
CursorStep ==
    (pc = "loop" /\ pc' = "loop") =>
        /\ cursor' >= cursor
        /\ (cursor' - last'.advance) - cursor = SilenceDur(emitted')

PspCursorStep ==
    (driver = "psp" /\ pc' = "loop" /\ AllExist(emitted')) =>
        IF pc = "loop" THEN cursor' - cursor = audioMs' - audioMs
        ELSE cursor' = 0 /\ audioMs' = 0

C8_AudioCoversVideo == chunkOut.index >= 0 => chunkOut.audio >= chunkOut.video

\* C9: a segment whose text is empty or near-empty is not synthesized: exactly
\* one SPEECH artifact holding the original audio of the segment's window is
\* emitted, and the cursor advances by the window.
C9_BlankTextKeepsOriginalAudio ==
    (last.branch # "none" /\ last.textLen < MinTextLen) =>
        /\ emitted = <<Artifact("SPEECH", "original", last.target, TRUE)>>
        /\ last.advance = last.target

\* C10: within a job, across chunks, the same speaker is always synthesized
\* with the same voice.
C10_OneVoicePerSpeaker ==
    \A p \in voiceLog, q \in voiceLog : p[1] = q[1] => p[2] = q[2]

----------------------------------------------------------------------------
(* Splitting *)

ChunkLen(c) == c.to - c.from

Ceil(a, b) == (a + b - 1) \div b

SplitDone ==
    /\ jpc \notin {"task", "extract"}
    /\ failure \notin {"split_load", "split_export"}

----------------------------------------------------------------------------
(* Order of chunks *)

CreatedJobs == {k \in 1..Len(applied) : applied[k].fn = "create_job"}

\* C12: the chunk files are handed on, and their records registered, in
\* strictly increasing chunk order, for any number of chunks: the record with
\* index k belongs to the k-th chunk of the source.
C12_ChunkRecordsFollowChunkOrder ==
    \A c \in CreatedJobs :
        ~applied[c].raised =>
            \A k \in 1..Len(applied[c].segments) :
                applied[c].segments[k] = SegmentName(k - 1)

----------------------------------------------------------------------------
(* Final assembly *)

\* Both lists of the final assembly have been written.
ListsWritten ==
    status \in {"UPLOADING", "COMPLETED"} \/ failure \in {"merge_video", "mux"}

\* C13: at final assembly there is one audio output and one video output for
\* every chunk index 0..n-1 of the split; no chunk is left out.
C13_EveryChunkInBothOutputs ==
    ListsWritten =>
        /\ Len(lists.audio) = Len(chunk_files)
        /\ Len(lists.video) = Len(chunk_files)

----------------------------------------------------------------------------
(* Provider chain of smart_transcribe *)

\* Call k is of a transcription provider that gave no segments.
Failed(k) == calls[k].outcome \in {"error", "no_segments", "empty"}

WhisperCalls == {k \in 1..Len(calls) : calls[k].provider = "whisper"}

\* C14: with the ordered providers Whisper, then Gemini, the later provider
\* is invoked only after the earlier one failed, and the first success is
\* what the chain returns.
C14_NextProviderOnlyAfterFailure ==
    /\ \A k \in 1..Len(calls) :
          calls[k].provider = "gemini_native" =>
              \A j \in WhisperCalls : j < k => Failed(j)
    /\ jpc = "transcribed" =>
          \A j \in WhisperCalls :
              ~Failed(j) => raw_segments = [from |-> "whisper", segments |-> TRUE]

----------------------------------------------------------------------------
(* Synthesis *)

SynthCalls == {k \in 1..Len(applied) : applied[k].fn # "create_job"}

\* The synthesizer was given the SSML script and rejected it.
SsmlRejected(k) ==
    /\ applied[k].attempts # << >>
    /\ applied[k].attempts[1] = Attempt("ssml", "canceled")

\* C15: when the synthesizer rejects the SSML form of a text, synthesis is
\* retried exactly once with the plain text.
C15_RejectedSsmlRetriedOnceAsText ==
    \A k \in SynthCalls :
        SsmlRejected(k) =>
            /\ Len(applied[k].attempts) = 2
            /\ applied[k].attempts[2].mode = "text"

\* The segment had text to speak and no synthesized clip came out of it.
SynthesisFailed ==
    /\ last.branch # "none"
    /\ last.textLen >= MinTextLen
    /\ \A n \in 1..Len(emitted) : emitted[n].origin # "synth"

\* C16: when synthesis fails for a segment (and the media tools work), the
\* segment still emits an artifact holding the original audio of its window
\* [start, end).
C16_FailedSegmentKeepsOriginalAudio ==
    (SynthesisFailed /\ AllExist(emitted)) =>
        \E n \in 1..Len(emitted) :
            /\ emitted[n].kind = "SPEECH"
            /\ emitted[n].origin = "original"
            /\ emitted[n].dur = last.target

----------------------------------------------------------------------------
(* Termination of a job *)

\* C17: every started job eventually reaches COMPLETED or FAILED, also when
\* the file a provider holds stays in state PROCESSING forever.
C17_StartedJobTerminates ==
    (status = "EXTRACTING") ~> (status \in {"COMPLETED", "FAILED"})

----------------------------------------------------------------------------
(* Failures inside a chunk *)

\* C18: a media-tool failure while one chunk is processed does not fail the
\* job: the job goes on to the remaining chunks and is not marked FAILED
\* because of it.
C18_ChunkFailureDoesNotFailJob ==
    status = "FAILED" => failure \notin {"chunk_export", "chunk_concat"}

\* C19: process_segment_pipeline always leaves an output chunk file: the
\* dubbed chunk, or the input chunk with its original audio when the concat,
\* the stretch or the mux fails.
C19_PipelineAlwaysLeavesOutput ==
    (driver = "psp" /\ chunkOut.index >= 0) =>
        /\ chunkOut.raised = "none" => chunkOut.output \in {"dubbed", "original"}
        /\ chunkOut.raised \in {"concat", "stretch", "mux"} =>
              chunkOut.output = "original"

----------------------------------------------------------------------------
(* A source that cannot be split *)

\* C20: when the source cannot be split, the job is marked failed; no job
\* record is left pending.
C20_UnsplittableSourceFailsJob ==
    \A c \in CreatedJobs :
        applied[c].raised => applied[c].job_row # "pending"

----------------------------------------------------------------------------
(* The status record of a job *)

Terminal == status \in {"COMPLETED", "FAILED"}

\* C21: once the recorded status of a job is COMPLETED or FAILED, no later
\* step changes its status, progress, message or result, in memory or in the
\* bucket.
C21_TerminalRecordImmutable ==
    [][Terminal => /\ status' = status
                   /\ task' = task
                   /\ stored' = stored]_vars

\* A completed job went through its cleanup and returned.
C21_Witness == status = "COMPLETED" /\ jpc = "done"

Polls ==
    {get_task_status(in_memory, fetched) :
        in_memory \in BOOLEAN, fetched \in BOOLEAN}

HasResult(answer) == "result" \in DOMAIN answer /\ answer.result.present

\* C22: in every state a status poll can observe, a result is present only
\* if the status is COMPLETED; FAILED and in-progress jobs expose none.
C22_ResultOnlyWhenCompleted ==
    \A answer \in Polls : HasResult(answer) => answer.status = "COMPLETED"

\* A completed job exposes its result with the signed URL.
C22_Witness ==
    /\ status = "COMPLETED"
    /\ \E answer \in Polls :
          HasResult(answer) /\ answer.result.dubbed_video_url = "signed_url"

SpecStatuses ==
    {"PENDING", "EXTRACTING", "TRANSCRIBING", "TRANSLATING",
     "GENERATING_AUDIO", "MERGING", "UPLOADING", "COMPLETED", "FAILED"}

\* C23: every status recorded for a job is one of PENDING, EXTRACTING,
\* TRANSCRIBING, TRANSLATING, GENERATING_AUDIO, MERGING, UPLOADING,
\* COMPLETED, FAILED, and its progress is within 0..100.
C23_StatusInEnumeration ==
    /\ status \in SpecStatuses
    /\ task.progress \in 0..100
    /\ stored # NoPayload =>
          stored.status \in SpecStatuses /\ stored.progress \in 0..100

\* C24: once chunking has been done, every status reported afterwards has a
\* progress above 0 and not below the progress reported before it.
C24_ProgressPositiveAndMonotone ==
    [][SplitDone => /\ task'.progress > 0
                    /\ task'.progress >= task.progress]_vars

----------------------------------------------------------------------------
(* Stretching the picture *)

PipelineChunkDone == driver = "psp" /\ chunkOut.index >= 0 /\ chunkOut.dubbed

\* C25: after a chunk's audio is concatenated, the picture is stretched by
\* audio / video exactly when the audio exceeds the chunk's video by more
\* than 200 ms, after which both last the same; within the tolerance the
\* picture is unchanged; the step is defined for every probed video
\* duration, 0 included.
C25_StretchBeyondTolerance ==
    PipelineChunkDone =>
        /\ chunkOut.raised # "zero_division"
        /\ chunkOut.raised = "none" =>
              /\ chunkOut.stretched <=> chunkOut.audio > chunkOut.video + 200
              /\ chunkOut.stretched => chunkOut.picture = chunkOut.audio
              /\ ~chunkOut.stretched => chunkOut.picture = chunkOut.video

----------------------------------------------------------------------------
(* Batching of segments *)

FlowCalls ==
    {k \in 1..Len(applied) : applied[k].fn = "optimize_segments_for_flow"}

\* Index (from 1) of the last input segment of group j of a result.
GroupLast(segments, result, j) ==
    IF j = Len(result) THEN Len(segments) ELSE result[j + 1].id

RECURSIVE TextOf(_, _, _)
\* len of the texts of segments a..b joined with single spaces
TextOf(segments, a, b) ==
    IF a = b THEN segments[a].text
    ELSE TextOf(segments, a, b - 1) + 1 + segments[b].text

\* The three conditions, between the group made of segments a..b and segment
\* b + 1.
Mergeable(segments, a, b) ==
    /\ segments[b + 1].start - segments[b].end < GapThresholdMs
    /\ segments[a].speaker = segments[b + 1].speaker
    /\ TextOf(segments, a, b) + segments[b + 1].text < MaxChars

GroupsFollowRule(segments, result) ==
    /\ (segments = << >>) <=> (result = << >>)
    /\ result # << >> => result[1].id = 0
    /\ \A j \in 1..Len(result) :
          LET a == result[j].id + 1
              b == GroupLast(segments, result, j)
          IN  /\ a <= b
              /\ \A k \in a..(b - 1) : Mergeable(segments, a, k)
              /\ b < Len(segments) => ~Mergeable(segments, a, b)
              /\ result[j].start = segments[a].start
              /\ result[j].end = segments[b].end
              /\ result[j].text = TextOf(segments, a, b)

\* C26: optimize_segments_for_flow merges the current group with the next
\* segment exactly when the gap is under gap_threshold, the speakers are the
\* same and the two text lengths sum to less than max_chars; otherwise the
\* group is closed and the next segment starts a new group.
C26_MergeExactlyWhenAllThreeHold ==
    \A c \in FlowCalls : GroupsFollowRule(applied[c].segments, applied[c].result)

\* Three segments of one speaker, the second one merged into the first, the
\* third one kept apart because its gap is exactly the threshold.
C26_Witness ==
    \E c \in FlowCalls :
        LET segments == applied[c].segments
            result == applied[c].result
        IN  /\ Len(segments) = 3
            /\ Len(result) = 2
            /\ result[2].id = 2
            /\ segments[3].start - segments[2].end = GapThresholdMs
            /\ segments[3].speaker = segments[1].speaker
            /\ result[1].text = segments[1].text + 1 + segments[2].text

----------------------------------------------------------------------------
(* Condensing a text before synthesis *)

CondenseCalls == {k \in 1..Len(applied) : applied[k].fn = "condensation"}

\* The estimate len / 13 s exceeds num/den times the target (ms).
EstimateExceeds(c, num, den) ==
    applied[c].len * 1000 * den > EstCharsPerSec * applied[c].target_dur * num

\* C27 as stated: a shortened paraphrase is requested exactly when the
\* duration estimated from the text length exceeds 1.3 * targetDuration.
C27_CondensedAboveThirteenTenths ==
    \A c \in CondenseCalls :
        applied[c].client =>
            (applied[c].result.requested <=> EstimateExceeds(c, 13, 10))

\* C27, amended: with a Gemini client, a shortened paraphrase is requested
\* exactly when the estimate exceeds 1.25 * targetDuration; without a client
\* it is never requested; when none is requested the text is unchanged.
C27_CondensedAboveFiveQuarters ==
    \A c \in CondenseCalls :
        /\ applied[c].result.requested <=>
              (applied[c].client /\ EstimateExceeds(c, 5, 4))
        /\ ~applied[c].result.requested =>
              applied[c].result.text = applied[c].len

\* A 66-character text for a 4 s segment (estimate 5.08 s, between 5.0 and
\* 5.2) has been sent for condensing.
C27_Witness ==
    \E c \in CondenseCalls :
        /\ applied[c].len = 66
        /\ applied[c].target_dur = 4000
        /\ applied[c].result.requested

----------------------------------------------------------------------------
(* Scratch files *)

ScratchCalls == {k \in 1..Len(applied) : applied[k].fn = "pipeline_scratch"}

\* C28: when the processing of a chunk ends, by returning or by an
\* exception, every scratch file created for the chunk has been deleted.
C28_NoScratchFileLeft ==
    \A c \in ScratchCalls : applied[c].left = {}

----------------------------------------------------------------------------
(* Retries *)

RetryCalls == {k \in 1..Len(applied) : applied[k].fn = "retry"}

\* At most three attempts, none after a success, and the loop ends after the
\* third failure.
Capped(attempts) ==
    /\ Len(attempts) <= 3
    /\ \A k \in 1..(Len(attempts) - 1) : attempts[k].outcome # "ok"
    /\ Len(attempts) < 3 => attempts[Len(attempts)].outcome = "ok"

\* C29 as stated: a failing provider or store call is attempted at most 3
\* times, no attempt follows a success, the loop ends when the cap is
\* exhausted, and the wait between attempts grows with the attempt number.
C29_CappedWithGrowingWait ==
    \A c \in RetryCalls :
        LET attempts == applied[c].attempts IN
        /\ Capped(attempts)
        /\ \A k \in 2..Len(attempts) :
              attempts[k].outcome # "ok" => attempts[k].wait > attempts[k - 1].wait

\* C29, amended: at most 3 attempts, none after a success, the loop ends
\* when the cap is exhausted; the wait after a failed attempt is 1 s in the
\* store loops, and in the enrichment loop 10 s times the attempt number
\* after a quota error, 1 s after a model-not-found error, 2 s otherwise.
C29_CappedWithListedWaits ==
    \A c \in RetryCalls :
        LET attempts == applied[c].attempts IN
        /\ Capped(attempts)
        /\ \A k \in 1..Len(attempts) :
              attempts[k].wait =
                  CASE attempts[k].outcome = "ok" -> 0
                    [] applied[c].loop # "enrich" -> 1
                    [] attempts[k].outcome = "quota" -> 10 * k
                    [] attempts[k].outcome = "not_found" -> 1
                    [] OTHER -> 2

\* A store call failed three times and was given up.
C29_Witness ==
    \E c \in RetryCalls :
        /\ applied[c].loop = "fetch"
        /\ Len(applied[c].attempts) = 3
        /\ \A k \in 1..3 : applied[c].attempts[k].outcome = "error"

----------------------------------------------------------------------------
(* Voice registry *)

\* Entries of reg before entry n whose gender is that of entry n, whatever
\* its capitalisation.
EarlierOfGender(reg, n) ==
    Cardinality({m \in 1..(n - 1) : Lower(reg[m].key[2]) = Lower(reg[n].key[2])})

PoolOf(gender) == IF Lower(gender) = "female" THEN female_voices ELSE male_voices

\* C30: the k-th distinct speaker of a gender (k = 0, 1, ..., in order of
\* first appearance) has entry k mod poolSize of that gender's voice pool,
\* whatever capitalisation the gender label has.
C30_KthSpeakerGetsKthVoice ==
    \A n \in 1..Len(speaker_registry) :
        LET pool == PoolOf(speaker_registry[n].key[2]) IN
        speaker_registry[n].voice =
            pool[(EarlierOfGender(speaker_registry, n) % Len(pool)) + 1]

----------------------------------------------------------------------------
(* Enrichment *)

WhisperGaveSegments == \E k \in WhisperCalls : calls[k].outcome = "segments"

\* C31: when Whisper returned a non-empty list of segments, smart_transcribe
\* returns those segments however the enrichment ends (exception, empty
\* response, ids missing): never the legacy stage's output, never [].
C31_WhisperSegmentsSurviveEnrichment ==
    (jpc = "transcribed" /\ WhisperGaveSegments) =>
        (raw_segments.from = "whisper" /\ raw_segments.segments)

\* C32: the clip of a segment is rendered with the voice resolved for the
\* segment's speaker, in markup mode, in plain-text mode and in the
\* plain-text retry.
C32_ClipRenderedWithResolvedVoice ==
    \A c \in SynthCalls :
        \A k \in 1..Len(applied[c].attempts) :
            applied[c].voices[k] = applied[c].voice_name

----------------------------------------------------------------------------
(* Concatenation lists *)

\* C33: every path written to a concatenation list names a file its step
\* created: when the chunk's list is written, the files the last iteration
\* appended exist, also after a failed speed adjustment or a failed cut of
\* the original audio.
C33_ListedFilesExist ==
    [][(pc = "loop" /\ pc' = "idle" /\ nFiles > 0) => AllExist(emitted)]_vars

----------------------------------------------------------------------------
(* Early drift *)

\* How far before its segment's start the speech artifact of the last psp
\* iteration begins on the timeline.
EarlyDrift == last.startGap - SilenceDur(emitted)

\* C34: in process_segment_pipeline the audio artifact of each segment,
\* synthesized or original-audio fallback, begins no earlier than
\* start*1000 - 100 ms on the timeline.
C34_EarlyDriftWithinTolerance ==
    (driver = "psp" /\ last.branch \notin {"none", "skip"}) =>
        EarlyDrift <= GapToleranceMs

----------------------------------------------------------------------------
(* Groups *)

\* No segment of the list begins before the one before it ends.
TimeOrdered(s) ==
    /\ \A k \in 1..Len(s) : s[k].start < s[k].end
    /\ \A k \in 1..(Len(s) - 1) : s[k].end <= s[k + 1].start

\* The groups are the consecutive runs a..b of the input, first run from
\* the first segment, last run to the last one, each with the start of its
\* first member, the end of its last member and the joined texts.
PartitionsIntoRuns(segments, result) ==
    /\ (segments = << >>) <=> (result = << >>)
    /\ result # << >> => result[1].id = 0
    /\ \A j \in 1..Len(result) :
          LET a == result[j].id + 1
              b == GroupLast(segments, result, j)
          IN  /\ a <= b
              /\ b <= Len(segments)
              /\ result[j].start = segments[a].start
              /\ result[j].end = segments[b].end
              /\ result[j].text = TextOf(segments, a, b)
              /\ result[j].speaker = segments[a].speaker

\* C35: for time-ordered, non-overlapping input, optimize_segments_for_flow
\* returns time-ordered, non-overlapping groups that partition the input
\* into consecutive runs (start of the first member, end of the last, texts
\* joined in order, nothing lost or duplicated), and the segments of the
\* input list are left as they were.
C35_GroupsPartitionInput ==
    \A c \in FlowCalls :
        TimeOrdered(applied[c].segments) =>
            /\ PartitionsIntoRuns(applied[c].segments, applied[c].result)
            /\ TimeOrdered(applied[c].result)
            /\ applied[c].after = applied[c].segments

\* Three time-ordered segments came back as two groups, the first one a
\* merge of two segments.
C35_Witness ==
    \E c \in FlowCalls :
        /\ Len(applied[c].segments) = 3
        /\ TimeOrdered(applied[c].segments)
        /\ Len(applied[c].result) = 2
        /\ applied[c].result[2].id = 2

\* C36 as stated: every segment made by merging two or more input segments
\* has a text strictly shorter than max_chars, separators included.
C36_MergedTextBelowMaxChars ==
    \A c \in FlowCalls :
        \A j \in 1..Len(applied[c].result) :
            GroupLast(applied[c].segments, applied[c].result, j) > applied[c].result[j].id + 1
                => applied[c].result[j].text < MaxChars

\* C36, amended: every segment made by merging has a text of at most
\* max_chars characters, separators included.
C36_MergedTextAtMostMaxChars ==
    \A c \in FlowCalls :
        \A j \in 1..Len(applied[c].result) :
            GroupLast(applied[c].segments, applied[c].result, j) > applied[c].result[j].id + 1
                => applied[c].result[j].text <= MaxChars

\* Two segments whose texts sum to max_chars - 1 were merged into a text of
\* exactly max_chars characters.
C36_Witness ==
    \E c \in FlowCalls :
        /\ Len(applied[c].segments) = 2
        /\ Len(applied[c].result) = 1
        /\ applied[c].result[1].text = MaxChars

----------------------------------------------------------------------------
(* Completion *)

\* C37: whenever a job's status is COMPLETED, its result carries a non-null
\* dubbed_video_url returned by the storage upload.
C37_CompletedHasUrl ==
    status = "COMPLETED" =>
        (task.result.present /\ task.result.dubbed_video_url # "None")

\* Place of a status in the pipeline order.
Rank(st) ==
    CASE st = "PENDING" -> 0
      [] st = "EXTRACTING" -> 1
      [] st = "PROCESSING" -> 2
      [] st = "MERGING" -> 3
      [] st = "UPLOADING" -> 4
      [] st = "COMPLETED" -> 5
      [] OTHER -> 6

\* C38: the statuses recorded for a job follow the order PENDING,
\* EXTRACTING, per-chunk processing, MERGING, UPLOADING, COMPLETED: a change
\* of status is a move to a later stage or, from a non-terminal stage, to
\* FAILED; COMPLETED is recorded only after UPLOADING.
C38_StatusFollowsPipelineOrder ==
    [][/\ status' # status =>
            \/ status' = "FAILED" /\ ~Terminal
            \/ status' # "FAILED" /\ ~Terminal /\ Rank(status') > Rank(status)
       /\ (status' = "COMPLETED" /\ status # "COMPLETED") => status = "UPLOADING"]_vars

\* A job of two chunks went through every stage and is COMPLETED.
C38_Witness ==
    /\ status = "COMPLETED"
    /\ task.progress = 100
    /\ Len(final_audio_parts) = 2

====
